---- MODULE Spec2Model ----
(***************************************************************************)
(* Model of axhal's RISC-V architecture layer (arch/riscv/mod.rs):         *)
(* interrupt masking, page-table-root switching with TLB invalidation,     *)
(* and the fault-tolerant user-memory probe (access_ok, __get_user_asm,    *)
(* fault_in_readable).                                                     *)
(*                                                                         *)
(* A usize is a 64-bit word.  It is held as four 16-bit limbs, least       *)
(* significant first, so that the arithmetic keeps its width and its       *)
(* wraparound.                                                             *)
(***************************************************************************)
EXTENDS Integers, Sequences, FiniteSets, TLC

\* ------------------------------------------------------------------------
\* Bounds of the model
\* ------------------------------------------------------------------------

\* Arguments are drawn within this distance of each interesting boundary.
Near == 1

\* Number of page-table roots (physical pages 0 .. NumRoots-1 hold one each).
NumRoots == 3

\* Number of virtual pages whose translations are tracked in the TLB.
NumVPages == 2

\* Number of interrupt-mask operations followed in one run.
MaxIrqOps == 4

\* ------------------------------------------------------------------------
\* 64-bit machine words
\* ------------------------------------------------------------------------

Base == 2^16

\* The word l3:l2:l1:l0 (most significant limb first in the argument list).
U64(l3, l2, l1, l0) == <<l0, l1, l2, l3>>

Zero64 == U64(0, 0, 0, 0)

\* A small natural number as a word.
Small(n) == U64(0, 0, n \div Base, n % Base)

\* a + b, all five limbs of the exact sum (no wraparound).
WideAdd(a, b) ==
    LET s1 == a[1] + b[1]
        s2 == a[2] + b[2] + (s1 \div Base)
        s3 == a[3] + b[3] + (s2 \div Base)
        s4 == a[4] + b[4] + (s3 \div Base)
    IN  <<s1 % Base, s2 % Base, s3 % Base, s4 % Base, s4 \div Base>>

\* a + b modulo 2^64.
U64Add(a, b) == SubSeq(WideAdd(a, b), 1, 4)

\* a - b modulo 2^64.
U64Sub(a, b) ==
    LET d1 == a[1] + Base - b[1]
        d2 == a[2] + Base - b[2] - (1 - (d1 \div Base))
        d3 == a[3] + Base - b[3] - (1 - (d2 \div Base))
        d4 == a[4] + Base - b[4] - (1 - (d3 \div Base))
    IN  <<d1 % Base, d2 % Base, d3 % Base, d4 % Base>>

\* Unsigned comparison of two limb sequences of the same length.
RECURSIVE LimbsLe(_, _, _)
LimbsLe(a, b, i) ==
    IF i = 0 THEN TRUE
    ELSE IF a[i] # b[i] THEN a[i] < b[i]
    ELSE LimbsLe(a, b, i - 1)

U64Le(a, b) == LimbsLe(a, b, 4)

\* Exact (five-limb) value against a word.
WideLe(w, b) == LimbsLe(w, b \o <<0>>, 5)

\* ------------------------------------------------------------------------
\* Constants of the source
\* ------------------------------------------------------------------------

\* pub const TASK_SIZE: usize = 0x40_0000_0000;
TASK_SIZE == U64(0, 64, 0, 0)

\* LinuxError::EFAULT
EFAULT == 14

\* -(LinuxError::EFAULT as isize), held in a usize register.
err_val == U64Sub(Zero64, Small(EFAULT))

\* linux_err!(EFAULT): the negated errno as a usize.
linux_err(e) == U64Sub(Zero64, Small(e))

\* ------------------------------------------------------------------------
\* Argument values
\* ------------------------------------------------------------------------

\* boundary + d modulo 2^64, d possibly negative.
Offset(b, d) == IF d >= 0 THEN U64Add(b, Small(d)) ELSE U64Sub(b, Small(-d))

Boundaries == { Zero64, TASK_SIZE, U64(32768, 0, 0, 0), U64Sub(Zero64, TASK_SIZE) }

\* Small values, values around TASK_SIZE, around 2^63, around 2^64 - TASK_SIZE
\* and just below 2^64.
Words == { Offset(b, d) : b \in Boundaries, d \in (-Near) .. Near }

None == "none"

\* Bytes a mapped location may hold.
Bytes == {0, 127, 255}

VARIABLES
    pc,         \* position of the core in the operation it is executing
    op,         \* the operation last entered
    addr,       \* argument addr of access_ok / fault_in_readable
    size,       \* argument size of access_ok / fault_in_readable
    ok,         \* value returned by access_ok, once it has returned
    x,          \* register x of __get_user_asm
    err,        \* register err of __get_user_asm
    ret,        \* value returned by fault_in_readable, once it has
    phase,      \* phase of the fault_in_readable call
    trace,      \* phases the fault_in_readable call went through
    loads,      \* addresses of the loads issued by the current call, in order
    fixups,     \* times the fixup path was entered during the current call
    mapped,     \* whether the byte at addr is mapped and readable
    membyte,    \* the byte at addr when it is mapped
    honours,    \* whether the trap dispatcher consults __ex_table
    panicked,   \* the kernel died on an unhandled page fault
    satp,       \* the satp register: translation mode, ASID, root PPN
    tlb,        \* the translation cache of the core
    root_paddr, \* argument of write_page_table_root
    old_root,   \* local old_root of write_page_table_root
    satp0,      \* satp as it was when write_page_table_root was entered
    events,     \* register writes and fences issued by the current call
    prev,       \* argument and number of flushes of the call before
    rootRet,    \* value returned by read_page_table_root
    accesses,   \* translations used by accesses since the call returned
    sstatus,    \* the sstatus register: its SIE, SUM and SPP bits
    irqRet,     \* value returned by irqs_enabled
    irqlog      \* interrupt-control operations since the last query

uvars == <<pc, op, addr, size, ok, x, err, ret, phase, trace, loads, fixups,
           mapped, membyte, honours, panicked>>

\* The probe's variables other than pc and op.
uvars_locals == <<addr, size, ok, x, err, ret, phase, trace, loads, fixups,
                  mapped, membyte, honours, panicked>>

mvars == <<satp, tlb, root_paddr, old_root, satp0, events, prev, rootRet,
           accesses>>

ivars == <<sstatus, irqRet, irqlog>>

vars == <<uvars, mvars, ivars>>

\* The values the MMU variables keep while the MMU is not exercised.
MmuQuiet ==
    /\ satp = [mode |-> "Sv39", asid |-> 0, ppn |-> 0]
    /\ tlb = {}
    /\ root_paddr = 0
    /\ old_root = 0
    /\ satp0 = satp
    /\ events = <<>>
    /\ prev = <<>>
    /\ rootRet = <<>>
    /\ accesses = {}

\* The values the interrupt variables keep while they are not exercised.
IrqQuiet ==
    /\ sstatus = [sie |-> FALSE, sum |-> FALSE, spp |-> TRUE]
    /\ irqRet = <<>>
    /\ irqlog = <<>>

\* The values the probe variables keep while the probe is not exercised.
UaccessQuiet ==
    /\ addr = Zero64
    /\ size = Zero64
    /\ ok = <<>>
    /\ x = 0
    /\ err = Zero64
    /\ ret = <<>>
    /\ phase = None
    /\ trace = <<>>
    /\ loads = <<>>
    /\ fixups = 0
    /\ mapped = FALSE
    /\ membyte = 0
    /\ honours = TRUE
    /\ panicked = FALSE

\* ------------------------------------------------------------------------
\* access_ok
\* ------------------------------------------------------------------------

\* access_ok without the size test: TASK_SIZE - size wraps.
access_ok_nosize(a, s) == U64Le(a, U64Sub(TASK_SIZE, s))

\* size <= TASK_SIZE && addr <= TASK_SIZE - size
access_ok(a, s) == U64Le(s, TASK_SIZE) /\ U64Le(a, U64Sub(TASK_SIZE, s))

\* ------------------------------------------------------------------------
\* fault_in_readable and __get_user_asm
\* ------------------------------------------------------------------------

\* A standalone call of access_ok(a, s).
AccessOkCall ==
    /\ pc = "idle"
    /\ \E a \in Words, s \in Words :
        /\ addr' = a
        /\ size' = s
        /\ ok' = <<access_ok(a, s)>>
    /\ op' = "access_ok"
    /\ pc' = "aok_ret"
    /\ UNCHANGED <<x, err, ret, phase, trace, loads, fixups, mapped,
                   membyte, honours, panicked,
                   mvars, ivars>>

\* Entry of fault_in_readable(a, s); the memory behind a is mapped or not.
FirCall ==
    /\ pc = "idle"
    /\ \E a \in Words, s \in Words, m \in BOOLEAN, b \in Bytes :
        /\ addr' = a
        /\ size' = s
        /\ mapped' = m
        /\ membyte' = IF m THEN b ELSE 0
    /\ op' = "fault_in_readable"
    /\ pc' = "fir_check"
    /\ phase' = "Start"
    /\ trace' = <<"Start">>
    /\ loads' = <<>>
    /\ fixups' = 0
    /\ ok' = <<>>
    /\ x' = 0
    /\ err' = Zero64
    /\ ret' = <<>>
    /\ UNCHANGED <<honours, panicked, mvars, ivars>>

\* The branch taken on access_ok's result: always probing.
fir_branch_nocheck(okv) == "gua_init"

\* if !access_ok(addr, size) { return linux_err!(EFAULT); }
fir_branch(okv) == IF okv THEN "gua_init" ELSE "fir_reject"

FirBoundsCheck ==
    /\ pc = "fir_check"
    /\ ok' = <<access_ok(addr, size)>>
    /\ pc' = fir_branch(ok'[1])
    /\ phase' = "BoundsCheck"
    /\ trace' = Append(trace, "BoundsCheck")
    /\ UNCHANGED <<op, addr, size, x, err, ret, loads, fixups, mapped,
                   membyte, honours, panicked,
                   mvars, ivars>>

FirReject ==
    /\ pc = "fir_reject"
    /\ ret' = <<linux_err(EFAULT)>>
    /\ pc' = "fir_ret"
    /\ phase' = "Rejected"
    /\ trace' = Append(trace, "Rejected")
    /\ UNCHANGED <<op, addr, size, ok, x, err, loads, fixups, mapped,
                   membyte, honours, panicked,
                   mvars, ivars>>

\* let mut err: usize = 0;
GetUserInit ==
    /\ pc = "gua_init"
    /\ err' = Zero64
    /\ pc' = "gua_1"
    /\ UNCHANGED <<op, addr, size, ok, x, ret, phase, trace, loads, fixups,
                   mapped, membyte, honours, panicked,
                   mvars, ivars>>

\* 1: lb x, (ptr) -- completes, or raises a load page fault at label 1.
GetUserLoad ==
    /\ pc = "gua_1"
    /\ loads' = Append(loads, addr)
    /\ phase' = "ProbeIssued"
    /\ trace' = Append(trace, "ProbeIssued")
    /\ IF mapped
       THEN /\ x' = membyte
            /\ pc' = "gua_2"
       ELSE /\ x' = x
            /\ pc' = "trap"
    /\ UNCHANGED <<op, addr, size, ok, err, ret, fixups, mapped, membyte,
                   honours, panicked,
                   mvars, ivars>>

\* The page-fault handler: a dispatcher that consults __ex_table finds the
\* entry (1b, 3b) and resumes at label 3; any other treats the fault as fatal.
TrapDispatch ==
    /\ pc = "trap"
    /\ IF honours
       THEN /\ pc' = "gua_3"
            /\ panicked' = panicked
       ELSE /\ pc' = "panic"
            /\ panicked' = TRUE
    /\ UNCHANGED <<op, addr, size, ok, x, err, ret, phase, trace, loads,
                   fixups, mapped, membyte, honours,
                   mvars, ivars>>

\* A fixup that leaves err as it was.
fixup_err_unset(e) == e

\* 3: li err, err_val
fixup_err(e) == err_val

\* A fixup that jumps back to the load.
fixup_target_retry == "gua_1"

\* jump 2b, _tmp
fixup_target == "gua_2"

\* 3: li err, err_val; li x, 0; jump 2b
Fixup ==
    /\ pc = "gua_3"
    /\ err' = fixup_err(err)
    /\ x' = 0
    /\ pc' = fixup_target
    /\ fixups' = fixups + 1
    /\ UNCHANGED <<op, addr, size, ok, ret, phase, trace, loads, mapped,
                   membyte, honours, panicked,
                   mvars, ivars>>

\* A result that hands the loaded byte back on success.
fir_result_byte(xv, e) == IF e # Zero64 THEN e ELSE Small(xv)

\* let (_, err) = __get_user_asm(addr); if err != 0 { return err; } 0
fir_result(xv, e) == IF e # Zero64 THEN e ELSE Zero64

\* 2: (x, err) is returned and fault_in_readable examines err.
FirResult ==
    /\ pc = "gua_2"
    /\ ret' = <<fir_result(x, err)>>
    /\ phase' = IF err # Zero64 THEN "Faulted" ELSE "Succeeded"
    /\ trace' = Append(trace, phase')
    /\ pc' = "fir_ret"
    /\ UNCHANGED <<op, addr, size, ok, x, err, loads, fixups, mapped,
                   membyte, honours, panicked,
                   mvars, ivars>>

\* The value is handed to the caller, which carries on; the locals are gone.
Resume ==
    /\ pc \in {"aok_ret", "fir_ret"}
    /\ pc' = "idle"
    /\ op' = None
    /\ addr' = Zero64
    /\ size' = Zero64
    /\ ok' = <<>>
    /\ x' = 0
    /\ err' = Zero64
    /\ ret' = <<>>
    /\ phase' = None
    /\ trace' = <<>>
    /\ loads' = <<>>
    /\ fixups' = 0
    /\ mapped' = FALSE
    /\ membyte' = 0
    /\ UNCHANGED <<honours, panicked, mvars, ivars>>

InitUaccess ==
    /\ pc = "idle"
    /\ op = None
    /\ addr = Zero64
    /\ size = Zero64
    /\ ok = <<>>
    /\ x = 0
    /\ err = Zero64
    /\ ret = <<>>
    /\ phase = None
    /\ trace = <<>>
    /\ loads = <<>>
    /\ fixups = 0
    /\ mapped = FALSE
    /\ membyte = 0
    /\ honours \in BOOLEAN
    /\ panicked = FALSE
    /\ MmuQuiet
    /\ IrqQuiet

NextUaccess ==
    \/ AccessOkCall
    \/ FirCall
    \/ FirBoundsCheck
    \/ FirReject
    \/ GetUserInit
    \/ GetUserLoad
    \/ TrapDispatch
    \/ Fixup
    \/ FirResult
    \/ Resume

SpecUaccess == InitUaccess /\ [][NextUaccess]_vars

\* ------------------------------------------------------------------------
\* Page-table root and TLB
\* ------------------------------------------------------------------------

\* n << 12 and n >> 12 on physical addresses.
Shl12(n) == n * 4096
Shr12(n) == n \div 4096

VPages == 0 .. (NumVPages - 1)

RootPpns == 0 .. (NumRoots - 1)

\* Physical addresses handed to write_page_table_root: the page-aligned
\* roots and one address in the middle of a page.
PhysAddrs == { Shl12(k) : k \in RootPpns } \cup { Shl12(1) + 2048 }

Aligned(pa) == Shl12(Shr12(pa)) = pa

Modes == {"Bare", "Sv39", "Sv48"}

\* The frame the page table rooted at physical page p maps virtual page v to;
\* every root maps every page to a frame of its own.
PageTable(p, v) == p * NumVPages + v

\* PhysAddr::from(satp::read().ppn() << 12)
read_page_table_root == Shl12(satp.ppn)

\* A comparison that never finds the roots equal.
roots_differ_always(o, n) == TRUE

\* if old_root != root_paddr
roots_differ(o, n) == o # n

\* A register value in the four-level mode.
wptr_satp_sv48(r) == [mode |-> "Sv48", asid |-> 0, ppn |-> Shr12(r)]

\* satp::set(satp::Mode::Sv39, 0, root_paddr.as_usize() >> 12)
wptr_satp(r) == [mode |-> "Sv39", asid |-> 0, ppn |-> Shr12(r)]

\* The body with the fence ahead of the register write.
wptr_instr_fence_first(pcv) == IF pcv = "wptr_b1" THEN "sfence" ELSE "satp_set"

\* The two instructions of the body of the if, in program order.
wptr_instr(pcv) == IF pcv = "wptr_b1" THEN "satp_set" ELSE "sfence"

wptr_after(pcv) == IF pcv = "wptr_b1" THEN "wptr_b2" ELSE "wptr_ret"

Flushes(ev) == Len(SelectSeq(ev, LAMBDA e : e = "sfence"))

\* Entry of write_page_table_root(r).
WptrCall ==
    /\ pc = "idle"
    /\ \E r \in PhysAddrs : root_paddr' = r
    /\ op' = "write_page_table_root"
    /\ pc' = "wptr_read"
    /\ prev' = IF op = "write_page_table_root"
               THEN <<[root |-> root_paddr, flushes |-> Flushes(events)]>>
               ELSE <<>>
    /\ satp0' = satp
    /\ events' = <<>>
    /\ old_root' = 0
    /\ rootRet' = <<>>
    /\ accesses' = {}
    /\ UNCHANGED <<satp, tlb, uvars_locals, ivars>>

\* let old_root = read_page_table_root();
WptrRead ==
    /\ pc = "wptr_read"
    /\ old_root' = read_page_table_root
    /\ pc' = "wptr_cmp"
    /\ UNCHANGED <<op, satp, tlb, root_paddr, satp0, events, prev, rootRet,
                   accesses, uvars_locals, ivars>>

WptrCompare ==
    /\ pc = "wptr_cmp"
    /\ pc' = IF roots_differ(old_root, root_paddr) THEN "wptr_b1" ELSE "wptr_ret"
    /\ UNCHANGED <<op, mvars, uvars_locals, ivars>>

WptrSatpSet ==
    /\ pc \in {"wptr_b1", "wptr_b2"}
    /\ wptr_instr(pc) = "satp_set"
    /\ satp' = wptr_satp(root_paddr)
    /\ events' = Append(events, "satp_set")
    /\ pc' = wptr_after(pc)
    /\ UNCHANGED <<op, tlb, root_paddr, old_root, satp0, prev, rootRet,
                   accesses, uvars_locals, ivars>>

\* asm::sfence_vma_all()
WptrSfence ==
    /\ pc \in {"wptr_b1", "wptr_b2"}
    /\ wptr_instr(pc) = "sfence"
    /\ tlb' = {}
    /\ events' = Append(events, "sfence")
    /\ pc' = wptr_after(pc)
    /\ UNCHANGED <<op, satp, root_paddr, old_root, satp0, prev, rootRet,
                   accesses, uvars_locals, ivars>>

WptrReturn ==
    /\ pc = "wptr_ret"
    /\ pc' = "idle"
    /\ UNCHANGED <<op, mvars, uvars_locals, ivars>>

\* A call of read_page_table_root() by the caller.
ReadRootCall ==
    /\ pc = "idle"
    /\ rootRet' = <<read_page_table_root>>
    /\ UNCHANGED <<pc, op, satp, tlb, root_paddr, old_root, satp0, events,
                   prev, accesses, uvars_locals, ivars>>

\* flush_tlb(vaddr): sfence.vma for one page of address space 0, or for all;
\* an Option is the empty or the one-element sequence.
FlushTlb ==
    /\ pc = "idle"
    /\ \E vaddr \in {<<>>} \cup { <<v>> : v \in VPages } :
        tlb' = IF vaddr = <<>> THEN {}
               ELSE { e \in tlb : ~(e.vpn = vaddr[1] /\ e.asid = 0) }
    /\ UNCHANGED <<pc, op, satp, root_paddr, old_root, satp0, events, prev,
                   rootRet, accesses, uvars_locals, ivars>>

\* The entry a page walk through the current satp produces for page v.
Walk(v) == [vpn |-> v, asid |-> satp.asid,
            frame |-> PageTable(satp.ppn, v), root |-> satp.ppn]

\* The hardware walks the table of the current root and caches the result,
\* at any moment, also between two instructions of a call.
HwFill ==
    /\ satp.mode # "Bare"
    /\ \E v \in VPages : tlb' = tlb \cup {Walk(v)}
    /\ UNCHANGED <<pc, op, satp, root_paddr, old_root, satp0, events, prev,
                   rootRet, accesses, uvars_locals, ivars>>

\* The caller accesses virtual page v: a cached translation is used when
\* there is one for the current ASID, else the table is walked.
Access ==
    /\ pc = "idle"
    /\ satp.mode # "Bare"
    /\ \E v \in VPages :
        LET hits == { e \in tlb : e.vpn = v /\ e.asid = satp.asid }
        IN  IF hits # {}
            THEN /\ \E e \in hits :
                      accesses' = accesses \cup {[vpn |-> v, frame |-> e.frame]}
                 /\ tlb' = tlb
            ELSE /\ accesses' = accesses \cup
                                  {[vpn |-> v, frame |-> Walk(v).frame]}
                 /\ tlb' = tlb \cup {Walk(v)}
    /\ UNCHANGED <<pc, op, satp, root_paddr, old_root, satp0, events, prev,
                   rootRet, uvars_locals, ivars>>

\* satp is not set by this module before the first call: any mode, any
\* ASID, any root may be in it.
InitMMU ==
    /\ pc = "idle"
    /\ op = None
    /\ UaccessQuiet
    /\ IrqQuiet
    /\ satp \in [mode : Modes, asid : {0, 1}, ppn : RootPpns]
    /\ tlb = {}
    /\ root_paddr = 0
    /\ old_root = 0
    /\ satp0 = satp
    /\ events = <<>>
    /\ prev = <<>>
    /\ rootRet = <<>>
    /\ accesses = {}

NextMMU ==
    \/ WptrCall
    \/ WptrRead
    \/ WptrCompare
    \/ WptrSatpSet
    \/ WptrSfence
    \/ WptrReturn
    \/ ReadRootCall
    \/ FlushTlb
    \/ HwFill
    \/ Access

SpecMMU == InitMMU /\ [][NextMMU]_vars

\* ------------------------------------------------------------------------
\* Interrupt control
\* ------------------------------------------------------------------------

\* sstatus with its SIE bit set although it was to be cleared.
clear_sie_sets(st) == [st EXCEPT !.sie = TRUE]

\* sstatus::set_sie()
set_sie(st) == [st EXCEPT !.sie = TRUE]

\* sstatus::clear_sie()
clear_sie(st) == [st EXCEPT !.sie = FALSE]

\* sstatus::clear_sum()
clear_sum(st) == [st EXCEPT !.sum = FALSE]

\* sstatus::read().sie()
irqs_enabled == sstatus.sie

EnableIrqs ==
    /\ pc = "idle"
    /\ Len(irqlog) < MaxIrqOps
    /\ sstatus' = set_sie(sstatus)
    /\ irqlog' = Append(irqlog, "enable_irqs")
    /\ irqRet' = <<>>
    /\ op' = "enable_irqs"
    /\ UNCHANGED <<pc, uvars_locals, mvars>>

DisableIrqs ==
    /\ pc = "idle"
    /\ Len(irqlog) < MaxIrqOps
    /\ sstatus' = clear_sie(sstatus)
    /\ irqlog' = Append(irqlog, "disable_irqs")
    /\ irqRet' = <<>>
    /\ op' = "disable_irqs"
    /\ UNCHANGED <<pc, uvars_locals, mvars>>

IrqsEnabledCall ==
    /\ pc = "idle"
    /\ irqRet' = <<irqs_enabled>>
    /\ op' = "irqs_enabled"
    /\ UNCHANGED <<pc, sstatus, irqlog, uvars_locals, mvars>>

DisableSum ==
    /\ pc = "idle"
    /\ sstatus' = clear_sum(sstatus)
    /\ op' = "disable_sum"
    /\ UNCHANGED <<pc, irqRet, irqlog, uvars_locals, mvars>>

\* wait_for_irqs(): wfi
WaitForIrqs ==
    /\ pc = "idle"
    /\ pc' = "wfi"
    /\ op' = "wait_for_irqs"
    /\ UNCHANGED <<sstatus, irqRet, irqlog, uvars_locals, mvars>>

\* halt(): disable_irqs(); the core is then at the wfi.
HaltDisable ==
    /\ pc = "idle"
    /\ Len(irqlog) < MaxIrqOps
    /\ sstatus' = clear_sie(sstatus)
    /\ irqlog' = Append(irqlog, "halt")
    /\ irqRet' = <<>>
    /\ op' = "halt"
    /\ pc' = "wfi"
    /\ UNCHANGED <<uvars_locals, mvars>>

\* The wfi completes: an interrupt became pending, or the hardware treats
\* the instruction as a no-op.  The function returns.
WfiWake ==
    /\ pc = "wfi"
    /\ pc' = "idle"
    /\ UNCHANGED <<op, sstatus, irqRet, irqlog, uvars_locals, mvars>>

\* sstatus is not set by this module before the first call.
InitIrq ==
    /\ pc = "idle"
    /\ op = None
    /\ UaccessQuiet
    /\ MmuQuiet
    /\ sstatus \in [sie : BOOLEAN, sum : BOOLEAN, spp : BOOLEAN]
    /\ irqRet = <<>>
    /\ irqlog = <<>>

NextIrq ==
    \/ EnableIrqs
    \/ DisableIrqs
    \/ IrqsEnabledCall
    \/ DisableSum
    \/ WaitForIrqs
    \/ HaltDisable
    \/ WfiWake

SpecIrq == InitIrq /\ [][NextIrq]_vars

\* A core that is executing keeps executing.
FairSpecUaccess == SpecUaccess /\ WF_vars(NextUaccess)

\* ------------------------------------------------------------------------
\* Properties
\* ------------------------------------------------------------------------

\* addr + size <= TASK_SIZE, the sum taken exactly.
InRange(a, s) == WideLe(WideAdd(a, s), TASK_SIZE)

\* addr + size does not fit the machine word.
Overflows(a, s) == WideAdd(a, s)[5] # 0

\* 0xFFFF_FFFF_FFFF_FFF2, the usize that holds -14.
EFAULT_CODE == U64(65535, 65535, 65535, 65522)

InFir == op = "fault_in_readable"

\* C1: access_ok(addr, size) is true exactly when addr + size, computed
\* without wraparound, is at most TASK_SIZE; a pair whose sum overflows the
\* word is rejected; (0x40_0000_0000, 1) is rejected and (0x3F_FFFF_FFFF, 1)
\* is accepted.
C1_AccessOkIffInRange ==
    pc = "aok_ret" =>
        /\ ok = <<InRange(addr, size)>>
        /\ Overflows(addr, size) => ok = <<FALSE>>
        /\ (addr = U64(0, 64, 0, 0) /\ size = Small(1)) => ok = <<FALSE>>
        /\ (addr = U64(0, 63, 65535, 65535) /\ size = Small(1)) => ok = <<TRUE>>

C1_Witness ==
    /\ pc = "aok_ret"
    /\ Overflows(addr, size)
    /\ U64Le(addr, TASK_SIZE)
    /\ ok = <<FALSE>>

\* C2: when size > TASK_SIZE or addr > TASK_SIZE - size, fault_in_readable
\* returns the EFAULT code, and at no point of the call has a load been
\* issued, a trap been raised or the fixup been entered.
C2_RejectedWithoutLoad ==
    (InFir /\ ~InRange(addr, size)) =>
        /\ loads = <<>>
        /\ fixups = 0
        /\ pc \in {"fir_check", "fir_reject", "fir_ret"}
        /\ pc = "fir_ret" => ret = <<EFAULT_CODE>>

C2_Witness ==
    /\ InFir
    /\ pc = "fir_ret"
    /\ ~InRange(addr, size)
    /\ mapped
    /\ ret = <<EFAULT_CODE>>
    /\ loads = <<>>

\* C3: when the range passes access_ok, the byte at addr is unmapped and the
\* trap dispatcher honours the __ex_table entry, the fault is never fatal and
\* fault_in_readable returns the EFAULT code to its caller.
C3_UnmappedReturnsFault ==
    (InFir /\ InRange(addr, size) /\ ~mapped /\ honours) =>
        /\ ~panicked
        /\ pc # "panic"
        /\ pc = "fir_ret" => (ret = <<EFAULT_CODE>> /\ phase = "Faulted")

C3_Witness ==
    /\ InFir
    /\ pc = "fir_ret"
    /\ InRange(addr, size)
    /\ ~mapped
    /\ honours
    /\ fixups = 1
    /\ ret = <<EFAULT_CODE>>
    /\ ~panicked

\* C4: when the range passes access_ok and the byte at addr is mapped and
\* readable, fault_in_readable returns 0 whatever byte was loaded.
C4_MappedReturnsZero ==
    (InFir /\ pc = "fir_ret" /\ InRange(addr, size) /\ mapped) =>
        /\ ret = <<Zero64>>
        /\ phase = "Succeeded"

C4_Witness ==
    /\ InFir
    /\ pc = "fir_ret"
    /\ InRange(addr, size)
    /\ mapped
    /\ x = 255
    /\ ret = <<Zero64>>

\* The three complete paths of a fault_in_readable call.
Paths == { <<"Start", "BoundsCheck", "Rejected">>,
           <<"Start", "BoundsCheck", "ProbeIssued", "Succeeded">>,
           <<"Start", "BoundsCheck", "ProbeIssued", "Faulted">> }

IsPrefix(t, u) == Len(t) <= Len(u) /\ SubSeq(u, 1, Len(t)) = t

\* The path so far is the beginning of one of the three paths, the call that
\* returned has gone through exactly one of them, and it has issued at most
\* one load and taken the fixup at most once.
ProbeStateMachine ==
    InFir =>
        /\ \E u \in Paths : IsPrefix(trace, u)
        /\ phase = trace[Len(trace)]
        /\ pc = "fir_ret" => trace \in Paths
        /\ Len(loads) <= 1
        /\ fixups <= 1
        /\ loads # <<>> => (ok = <<TRUE>> /\ loads = <<addr>>)

\* C8: a fault_in_readable call goes Start -> BoundsCheck -> Rejected, or
\* Start -> BoundsCheck -> ProbeIssued -> Succeeded or Faulted; the bounds
\* check precedes the probe, at most one load is issued whatever size is, the
\* load is not retried after a fault, and a call whose faults the dispatcher
\* recovers always reaches its return.
C8_ProbeStateMachine ==
    /\ []ProbeStateMachine
    /\ (pc = "fir_check" /\ honours) ~> (pc = "fir_ret")

C8_Witness ==
    /\ InFir
    /\ pc = "fir_ret"
    /\ phase = "Faulted"
    /\ size = TASK_SIZE
    /\ Len(loads) = 1
    /\ fixups = 1

\* C10: every load fault_in_readable issues is at an address strictly below
\* TASK_SIZE, also when size = 0.
C10_LoadsBelowTaskSize ==
    InFir => \A i \in 1 .. Len(loads) :
                 U64Le(loads[i], TASK_SIZE) /\ loads[i] # TASK_SIZE

InWptr == op = "write_page_table_root"

Returned == InWptr /\ pc \in {"wptr_ret", "idle"}

Sv39Root(r) == [mode |-> "Sv39", asid |-> 0, ppn |-> Shr12(r)]

\* C5: once write_page_table_root(r2) has returned from a call entered with
\* active root r1 # r2, the register was written and then the TLB flushed,
\* the TLB holds no entry walked from r1, and every access since the return
\* used r2's mapping, wherever the hardware filled the TLB during the call.
C5_SwitchLeavesNoStaleEntry ==
    (Returned /\ Aligned(root_paddr) /\ old_root # root_paddr) =>
        /\ events = <<"satp_set", "sfence">>
        /\ \A e \in tlb : e.root # Shr12(old_root)
        /\ \A e \in tlb : e.root = Shr12(root_paddr)
        /\ \A a \in accesses : a.frame = PageTable(Shr12(root_paddr), a.vpn)

C5_Witness ==
    /\ Returned
    /\ pc = "idle"
    /\ Aligned(root_paddr)
    /\ old_root # root_paddr
    /\ satp0.mode = "Sv39"
    /\ satp0.asid = 0
    /\ Cardinality(accesses) = NumVPages
    /\ tlb # {}

\* C6: when write_page_table_root(r) follows write_page_table_root(r), the
\* second call writes no register and issues no fence, so the two calls flush
\* at most once; read_page_table_root() after either call returns r.
C6_SecondCallIsNoOp ==
    (InWptr /\ Aligned(root_paddr)) =>
        /\ (prev # <<>> /\ prev[1].root = root_paddr) =>
               /\ events = <<>>
               /\ prev[1].flushes + Flushes(events) <= 1
        /\ Returned =>
               /\ read_page_table_root = root_paddr
               /\ rootRet # <<>> => rootRet[1] = root_paddr

C6_Witness ==
    /\ Returned
    /\ pc = "idle"
    /\ Aligned(root_paddr)
    /\ prev # <<>>
    /\ prev[1].root = root_paddr
    /\ prev[1].flushes = 1
    /\ events = <<>>
    /\ rootRet = <<root_paddr>>

\* C9 as stated: after write_page_table_root(r) has returned, r page-aligned,
\* satp is Sv39, ASID 0, root r, whatever satp held before the call.
C9_AlwaysSv39 ==
    (Returned /\ Aligned(root_paddr)) => satp = Sv39Root(root_paddr)

\* C9: after write_page_table_root(r) has returned, r page-aligned, satp is
\* Sv39, ASID 0, root r, provided the root read from satp at entry differed
\* from r or satp was in Sv39 with ASID 0 already; when the root at entry
\* was r, satp is left as it was.
C9_Sv39UnlessSameRoot ==
    (Returned /\ Aligned(root_paddr)) =>
        /\ (old_root # root_paddr \/ (satp0.mode = "Sv39" /\ satp0.asid = 0))
               => satp = Sv39Root(root_paddr)
        /\ old_root = root_paddr => satp = satp0

C9_Witness ==
    /\ Returned
    /\ pc = "idle"
    /\ Aligned(root_paddr)
    /\ old_root # root_paddr
    /\ satp0.mode = "Bare"
    /\ satp0.asid = 1
    /\ satp = Sv39Root(root_paddr)

\* C7: irqs_enabled() returns false when the last mask operation was
\* disable_irqs() (or halt()) and true when it was enable_irqs(), whatever
\* came before; after halt() has disabled, the core idles with the mask off.
C7_IrqRoundTrip ==
    /\ (irqRet # <<>> /\ irqlog # <<>>) =>
           irqRet[1] = (irqlog[Len(irqlog)] = "enable_irqs")
    /\ irqlog # <<>> => sstatus.sie = (irqlog[Len(irqlog)] = "enable_irqs")
    /\ (op = "halt" /\ pc = "wfi") => ~irqs_enabled

C7_Witness ==
    /\ Len(irqlog) >= 3
    /\ irqlog[Len(irqlog) - 2] = "enable_irqs"
    /\ irqlog[Len(irqlog) - 1] = "disable_irqs"
    /\ irqlog[Len(irqlog)] = "enable_irqs"
    /\ irqRet = <<TRUE>>

====
